---- MODULE Spec2Model ----
(***************************************************************************)
(* Model of MistsForConditionalGeneration (modeling_mists.py): the fusion  *)
(* of text embeddings with time-series patch features                      *)
(* (_merge_input_ids_with_time_series_features), the forward pass with its *)
(* cache-mask adjustment, and prepare_inputs_for_generation.               *)
(*                                                                         *)
(* Tensors are functions over 0-based index ranges, as in the source.      *)
(* Embedding vectors are symbolic: <<"zero">> is the all-zero vector,      *)
(* <<"txt", r, c>> the text embedding found at row r, column c of          *)
(* inputs_embeds, <<"ts", j, p>> patch p of time-series instance j.        *)
(***************************************************************************)
EXTENDS Integers, Sequences, FiniteSets, TLC

\* ---------------------------------------------------------------- bounds
\* Largest batch_size, sequence_length and number of token cells
\* (batch_size * sequence_length) of a batch.
MaxBatch == 2
MaxSeqLen == 3
MaxTokens == 6
\* Largest number of token cells of the prompt batch of a generation run.
MaxGenTokens == 4
\* Largest number of decode steps of a generation run.
MaxSteps == 2
\* Number of key heads of the language model's first layer.
NumKeyHeads == 2
\* Largest number of patches per time-series instance.
MaxPatches == 2
\* Largest number of time-series instances handed to the model.
MaxTimeSeries == 3

\* ------------------------------------------------------ program constants
\* self.pad_token_id
pad_token_id == 0
\* self.config.time_series_token_index
time_series_token_index == 1
\* self.config.ignore_index
ignore_index == -100
\* Some token id of the vocabulary that is neither pad nor placeholder.
text_token_id == time_series_token_index + 1

TokenIds == {pad_token_id, time_series_token_index, text_token_id}

ZeroVec == <<"zero">>
\* "None" for an optional tensor argument.
None == <<"None">>
\* A call that has not happened: the value of a record of its locals and results.
NoCall == [called |-> FALSE]

VARIABLES
    input_ids,                \* [row -> [column -> token id]]
    attention_mask,           \* [row -> [column -> 0..1]]
    labels,                   \* [row -> [column -> Int]] or None
    num_time_series,          \* N: instances in time_series_features
    num_time_series_patches,  \* P: patches per instance
    pad_embedding_zero,       \* whether the embedding table maps pad to the zero vector
    pc,                       \* "start", "merged" or "raised" for a direct call of the merge;
                              \* "generate", "prepared", "forwarded" or "raised" in a generation run
    merged,                   \* locals and results of the merge of the last call, or NoCall
    time_series_values,       \* whether time_series_values is given (not None)
    lm_keys,                  \* how the language model's first-layer keys depend on its input
    past_key_values,          \* the cache: [row -> [position -> [head -> key[..., 0]]]], or None
    model_inputs,             \* what prepare_inputs_for_generation returned, or NoCall
    fwd,                      \* locals of the last forward and what it handed to the language model
    branches,                 \* the branch each forward of the run took, in order
    step                      \* decode steps begun

vars == <<input_ids, attention_mask, labels, num_time_series, num_time_series_patches,
          pad_embedding_zero, pc, merged, time_series_values, lm_keys, past_key_values,
          model_inputs, fwd, branches, step>>

genVars == <<time_series_values, lm_keys, past_key_values, model_inputs, fwd, branches, step>>

\* ---------------------------------------------------------------- helpers
RECURSIVE SumTo(_, _)
\* f[0] + ... + f[n], 0 when n < 0
SumTo(f, n) == IF n < 0 THEN 0 ELSE f[n] + SumTo(f, n - 1)

RECURSIVE MaxOver(_, _)
\* the largest of f[0] .. f[n]
MaxOver(f, n) ==
    IF n = 0 THEN f[0]
    ELSE LET m == MaxOver(f, n - 1) IN IF f[n] > m THEN f[n] ELSE m

Bit(b) == IF b THEN 1 ELSE 0

\* ------------------------------------------------- shapes of the inputs
RowsOf(t) == DOMAIN t
ColsOf(t) == DOMAIN t[0]
\* t.shape[1]
Width(t) == Cardinality(ColsOf(t))
\* t.shape[0]
Height(t) == Cardinality(RowsOf(t))
\* t[:, -1]
LastCol(t) == Width(t) - 1
\* the number of ones of a 0/1 row
CountOnes(row) == SumTo(row, Cardinality(DOMAIN row) - 1)

\* inputs_embeds = self.get_input_embeddings()(input_ids)
InputsEmbeds(ids, padZero) ==
    [r \in RowsOf(ids) |-> [c \in ColsOf(ids) |->
        IF ids[r][c] = pad_token_id /\ padZero THEN ZeroVec ELSE <<"txt", r, c>>]]

\* time_series_features.reshape(-1, embed_dim)[k]
FlatFeature(k, P) == <<"ts", k \div P, k % P>>

\* ------------------------- _merge_input_ids_with_time_series_features
\* Left padding taken to mean that some row ends in the pad token.
LeftPadding_SomeRowEndsInPad(ids) ==
    \E r \in RowsOf(ids) : ids[r][LastCol(ids)] = pad_token_id

\* left_padding = not torch.sum(input_ids[:, -1] == torch.tensor(self.pad_token_id))
LeftPadding(ids) ==
    SumTo([r \in RowsOf(ids) |-> Bit(ids[r][LastCol(ids)] = pad_token_id)],
          Height(ids) - 1) = 0

SpecialTimeSeriesTokenMask(ids) ==
    [r \in RowsOf(ids) |-> [c \in ColsOf(ids) |->
        Bit(ids[r][c] = time_series_token_index)]]

NumSpecialTimeSeriesTokens(ids) ==
    [r \in RowsOf(ids) |-> CountOnes(SpecialTimeSeriesTokenMask(ids)[r])]

\* Every placeholder counted as P additional columns instead of P - 1.
MaxEmbedDim_FullPatches(ids, P) ==
    MaxOver([r \in RowsOf(ids) |->
                Cardinality({c \in ColsOf(ids) : ids[r][c] = time_series_token_index})],
            Height(ids) - 1) * P + Width(ids)

MaxEmbedDim(ids, P) ==
    MaxOver(NumSpecialTimeSeriesTokens(ids), Height(ids) - 1) * (P - 1) + Width(ids)

\* The running sum without the "- 1" that makes it a 0-based index.
CumsumPositions_OneBased(ids, P) ==
    [r \in RowsOf(ids) |-> [c \in ColsOf(ids) |->
        SumTo([x \in ColsOf(ids) |->
                  Bit(ids[r][x] = time_series_token_index) * (P - 1) + 1], c)]]

\* torch.cumsum(special_time_series_token_mask * (P - 1) + 1, -1) - 1
CumsumPositions(ids, P) ==
    LET inc == [r \in RowsOf(ids) |-> [c \in ColsOf(ids) |->
                   SpecialTimeSeriesTokenMask(ids)[r][c] * (P - 1) + 1]]
    IN  [r \in RowsOf(ids) |-> [c \in ColsOf(ids) |-> SumTo(inc[r], c) - 1]]

\* nb_time_series_pad = max_embed_dim - 1 - new_token_positions[:, -1]
NbTimeSeriesPad(maxDim, cum) ==
    [r \in RowsOf(cum) |-> maxDim - 1 - cum[r][LastCol(cum)]]

\* if left_padding: new_token_positions += nb_time_series_pad[:, None]
NewTokenPositions(left, cum, nbPad) ==
    [r \in RowsOf(cum) |-> [c \in ColsOf(cum) |->
        IF left THEN cum[r][c] + nbPad[r] ELSE cum[r][c]]]

\* The scatter index of lines 176-185: for every fused (r, i), the column c with
\* input_ids[r][c] != time_series_token_index and text_to_overwrite = i whose
\* value an indexed assignment leaves there (the last one), or -1 when there is none.
TextSource(ids, ntp, maxDim) ==
    [r \in RowsOf(ids) |-> [i \in 0 .. maxDim - 1 |->
        LET from == {c \in ColsOf(ids) :
                        ids[r][c] # time_series_token_index /\ ntp[r][c] = i}
        IN  IF from = {} THEN -1
            ELSE CHOOSE c \in from : \A x \in from : x <= c]]

\* Every position that is no text position selected, the padding included.
TimeSeriesToOverwrite_NoPadMask(src, nbPad) ==
    [r \in RowsOf(src) |-> [i \in ColsOf(src) |-> Bit(src[r][i] = -1)]]

\* time_series_to_overwrite &= time_series_to_overwrite.cumsum(-1) - 1 >= nb_time_series_pad[:, None]
TimeSeriesToOverwrite(src, nbPad) ==
    LET free == [r \in RowsOf(src) |-> [i \in ColsOf(src) |-> Bit(src[r][i] = -1)]]
    IN  [r \in RowsOf(src) |-> [i \in ColsOf(src) |->
            Bit(free[r][i] = 1 /\ SumTo(free[r], i) - 1 >= nbPad[r])]]

\* time_series_to_overwrite.sum()
NumSlots(tso) ==
    SumTo([r \in RowsOf(tso) |-> CountOnes(tso[r])], Height(tso) - 1)

\* if time_series_to_overwrite.sum() != time_series_features.shape[:-1].numel(): raise
RaisesValueError(tso, N, P) == NumSlots(tso) # N * P

\* Rank of the slot (r, i) among the selected slots, in row-major order.
SlotRank(tso, r, i) ==
    SumTo([x \in RowsOf(tso) |-> CountOnes(tso[x])], r - 1) + SumTo(tso[r], i - 1)

\* The fused positions zeroed by step 6: new_token_positions of the pad tokens.
IndicesToMask(ids, ntp) ==
    [r \in RowsOf(ids) |->
        {ntp[r][c] : c \in {x \in ColsOf(ids) : ids[r][x] = pad_token_id}}]

\* final_embedding after lines 176, 194 and 202
FinalEmbedding(ids, embeds, src, tso, ntp, P) ==
    LET zeroed == IndicesToMask(ids, ntp)
    IN  [r \in RowsOf(src) |-> [i \in ColsOf(src) |->
            IF i \in zeroed[r] THEN ZeroVec
            ELSE IF tso[r][i] = 1 THEN FlatFeature(SlotRank(tso, r, i), P)
            ELSE IF src[r][i] # -1 THEN embeds[r][src[r][i]]
            ELSE ZeroVec]]

\* The mask assigned from time_series_to_overwrite instead of or-ed with it.
FinalAttentionMask_Assigned(mask, src, tso) ==
    [r \in RowsOf(src) |-> [i \in ColsOf(src) |-> tso[r][i]]]

\* final_attention_mask after lines 177 and 195
FinalAttentionMask(mask, src, tso) ==
    [r \in RowsOf(src) |-> [i \in ColsOf(src) |->
        IF tso[r][i] = 1 THEN 1
        ELSE IF src[r][i] # -1 THEN mask[r][src[r][i]]
        ELSE 0]]

\* final_labels after lines 161, 179 and 205
FinalLabels(lab, src) ==
    IF lab = None THEN None
    ELSE [r \in RowsOf(src) |-> [i \in ColsOf(src) |->
            IF src[r][i] # -1 THEN lab[r][src[r][i]] ELSE ignore_index]]

\* Non-attended positions filled with 0 instead of 1.
PositionIdsOf_FillZero(mask) ==
    [r \in RowsOf(mask) |-> [i \in DOMAIN mask[r] |->
        IF mask[r][i] = 0 THEN 0 ELSE SumTo(mask[r], i) - 1]]

\* (mask.cumsum(-1) - 1).masked_fill_(mask == 0, 1)
PositionIdsOf(mask) ==
    [r \in RowsOf(mask) |-> [i \in DOMAIN mask[r] |->
        IF mask[r][i] = 0 THEN 1 ELSE SumTo(mask[r], i) - 1]]

\* The locals and results of one call.
MergeInputIdsWithTimeSeriesFeatures(ids, mask, lab, N, P, padZero) ==
    LET left   == LeftPadding(ids)
        maxDim == MaxEmbedDim(ids, P)
        cum    == CumsumPositions(ids, P)
        nbPad  == NbTimeSeriesPad(maxDim, cum)
        ntp    == NewTokenPositions(left, cum, nbPad)
        src    == TextSource(ids, ntp, maxDim)
        tso    == TimeSeriesToOverwrite(src, nbPad)
        fmask  == FinalAttentionMask(mask, src, tso)
    IN  [left_padding |-> left,
         max_embed_dim |-> maxDim,
         nb_time_series_pad |-> nbPad,
         new_token_positions |-> ntp,
         time_series_to_overwrite |-> tso,
         raised |-> RaisesValueError(tso, N, P),
         final_embedding |-> FinalEmbedding(ids, InputsEmbeds(ids, padZero), src, tso, ntp, P),
         final_attention_mask |-> fmask,
         final_labels |-> FinalLabels(lab, src),
         position_ids |-> PositionIdsOf(fmask)]

\* ---------------------------------------------------------------- inputs
Shapes ==
    {s \in (1 .. MaxBatch) \X (1 .. MaxSeqLen) : s[1] * s[2] <= MaxTokens}

\* Attention masks: the tokenizer's (1 at every non-pad token) and one that is
\* unrelated to the tokens.
MaskModes == {"tokenizer", "checker"}

MaskFor(ids, mode) ==
    [r \in DOMAIN ids |-> [c \in DOMAIN ids[r] |->
        IF mode = "tokenizer" THEN Bit(ids[r][c] # pad_token_id)
        ELSE (r + c) % 2]]

\* Labels, when given: a distinct value at every (row, column).
LabelsFor(ids) ==
    [r \in DOMAIN ids |-> [c \in DOMAIN ids[r] |-> r * (MaxTokens + 1) + c + 1]]

Init ==
    /\ \E s \in Shapes :
         input_ids \in [0 .. s[1] - 1 -> [0 .. s[2] - 1 -> TokenIds]]
    /\ \E mode \in MaskModes : attention_mask = MaskFor(input_ids, mode)
    /\ labels \in {None, LabelsFor(input_ids)}
    /\ num_time_series \in 0 .. MaxTimeSeries
    /\ num_time_series_patches \in 1 .. MaxPatches
    /\ pad_embedding_zero \in BOOLEAN
    /\ pc = "start"
    /\ merged = NoCall
    /\ time_series_values = TRUE
    /\ lm_keys = "zero_preserving"
    /\ past_key_values = None
    /\ model_inputs = NoCall
    /\ fwd = NoCall
    /\ branches = <<>>
    /\ step = 0

\* One call of _merge_input_ids_with_time_series_features.
Merge ==
    /\ pc = "start"
    /\ LET m == MergeInputIdsWithTimeSeriesFeatures(
                    input_ids, attention_mask, labels, num_time_series,
                    num_time_series_patches, pad_embedding_zero)
       IN  /\ merged' = m
           /\ pc' = IF m.raised THEN "raised" ELSE "merged"
    /\ UNCHANGED <<input_ids, attention_mask, labels, num_time_series,
                   num_time_series_patches, pad_embedding_zero>>
    /\ UNCHANGED genVars

\* ------------------------------------------------------------- tensors
\* The start of the Python slice t[:, s:] of a tensor with w columns.
PyStart(w, s) ==
    IF s < 0 THEN (IF w + s < 0 THEN 0 ELSE w + s) ELSE (IF s > w THEN w ELSE s)

\* t[:, s:]
SliceFrom(t, s) ==
    LET b == PyStart(Width(t), s)
    IN  [r \in RowsOf(t) |-> [c \in 0 .. Width(t) - b - 1 |-> t[r][c + b]]]

\* torch.cat((a, b), dim=1)
Cat(a, b) ==
    [r \in RowsOf(a) |-> [c \in 0 .. Width(a) + Width(b) - 1 |->
        IF c < Width(a) THEN a[r][c] ELSE b[r][c - Width(a)]]]

\* -------------------------------------------------- the language model
LMKinds == {"zero_preserving", "cancelling"}

\* The first-layer key components past_key_values[0][0][r, :, j, 0] the language
\* model caches for an input embedding: zero for a zero embedding; for any other
\* embedding nonzero, and components that cancel over the heads when "cancelling".
KeyOf(kind, embedding) ==
    [h \in 0 .. NumKeyHeads - 1 |->
        IF embedding = ZeroVec THEN 0
        ELSE IF kind = "cancelling"
             THEN (IF h = 0 THEN 1 ELSE IF h = 1 THEN -1 ELSE 0)
             ELSE 1]

\* outputs.past_key_values of self.language_model(...): the cache with the keys
\* of the new positions appended.
LanguageModelCache(kind, past, embeds) ==
    LET new == [r \in RowsOf(embeds) |-> [c \in ColsOf(embeds) |->
                   KeyOf(kind, embeds[r][c])]]
    IN  IF past = None THEN new ELSE Cat(past, new)

\* ------------------------------------------------------------- forward
\* first_layer_past_key_value.float().sum(-2)
KeySum(past) ==
    [r \in RowsOf(past) |-> [j \in ColsOf(past) |->
        SumTo(past[r][j], NumKeyHeads - 1)]]

\* The mask of ones of line 272, no cached position zeroed.
ExtendedAttentionMask_AllOnes(past, mask) ==
    [r \in RowsOf(mask) |-> [j \in 0 .. Width(past) - 1 |-> 1]]

\* extended_attention_mask after line 287
ExtendedAttentionMask(past, mask) ==
    LET past_length == Width(past)
        sums == KeySum(past)
    IN  [r \in RowsOf(mask) |-> [j \in 0 .. past_length - 1 |->
            IF sums[r][j] = 0 /\ j < past_length THEN 0 ELSE 1]]

\* attention_mask = torch.cat((extended_attention_mask, attention_mask[:, -target_length:]), dim=1)
AdjustedAttentionMask(extended, mask, target_length) ==
    Cat(extended, SliceFrom(mask, -target_length))

\* The position taken from the cached positions alone, the new token left out.
AdjustedPositionIds_CacheOnly(mask) ==
    [r \in RowsOf(mask) |-> [c \in {0} |-> SumTo(mask[r], Width(mask) - 2) - 1]]

\* position_ids = torch.sum(attention_mask, dim=1).unsqueeze(-1) - 1
AdjustedPositionIds(mask) ==
    [r \in RowsOf(mask) |-> [c \in {0} |-> CountOnes(mask[r]) - 1]]

\* One call of forward on the bundle mi with the cache past: the branch taken, the
\* locals, what is handed to the language model, and the cache it returns.
Forward(mi, past, N, P, padZero, kind) ==
    LET ids    == mi.input_ids
        embeds == InputsEmbeds(ids, padZero)
    IN  IF mi.time_series_values /\ Width(ids) # 1
        THEN LET m == MergeInputIdsWithTimeSeriesFeatures(
                          ids, mi.attention_mask, None, N, P, padZero)
             IN  [branch |-> "merge", raised |-> m.raised, merged |-> m,
                  extended_attention_mask |-> None,
                  attention_mask |-> m.final_attention_mask,
                  position_ids |-> m.position_ids,
                  cache |-> IF m.raised THEN past
                            ELSE LanguageModelCache(kind, past, m.final_embedding)]
        ELSE IF past # None /\ mi.time_series_values /\ Width(ids) = 1
        THEN LET ext  == ExtendedAttentionMask(past, mi.attention_mask)
                 mask == AdjustedAttentionMask(ext, mi.attention_mask, Width(ids))
             IN  [branch |-> "adjust", raised |-> FALSE, merged |-> NoCall,
                  extended_attention_mask |-> ext,
                  attention_mask |-> mask,
                  position_ids |-> AdjustedPositionIds(mask),
                  cache |-> LanguageModelCache(kind, past, embeds)]
        ELSE [branch |-> "plain", raised |-> FALSE, merged |-> NoCall,
              extended_attention_mask |-> None,
              attention_mask |-> mi.attention_mask,
              position_ids |-> mi.position_ids,
              cache |-> LanguageModelCache(kind, past, embeds)]

\* --------------------------------------- prepare_inputs_for_generation
\* cache_length and past_length of a cache that holds every token it has seen
CacheLength(past) == Width(past)
PastLength(past) == Width(past)

\* self.config.time_series_token_index in input_ids
HoldsPlaceholder(ids) ==
    \E r \in RowsOf(ids) : \E c \in ColsOf(ids) : ids[r][c] = time_series_token_index

\* The trimming without the case of a placeholder still held by input_ids.
UnprocessedInputIds_NoPlaceholderCase(ids, mask, past_length) ==
    IF Width(mask) > Width(ids)
    THEN SliceFrom(ids, -(Width(mask) - past_length))
    ELSE IF past_length < Width(ids)
    THEN SliceFrom(ids, past_length)
    ELSE ids

\* Keep only the unprocessed tokens (lines 347-355).
UnprocessedInputIds(ids, mask, past_length) ==
    IF Width(mask) > Width(ids)
    THEN SliceFrom(ids, -(Width(mask) - past_length))
    ELSE IF past_length < Width(ids)
    THEN SliceFrom(ids, past_length)
    ELSE IF HoldsPlaceholder(ids)
    THEN SliceFrom(ids, Width(ids) - 1)
    ELSE ids

\* The bundle returned; its "past_key_values" entry is the cache object it was
\* given, which the state keeps in past_key_values.
PrepareInputsForGeneration(ids, past, mask, ts) ==
    LET ids1  == IF past = None THEN ids
                 ELSE UnprocessedInputIds(ids, mask, PastLength(past))
        mask1 == IF past # None /\ CacheLength(past) < PastLength(past)
                 THEN SliceFrom(mask, -(CacheLength(past) + Width(ids1)))
                 ELSE mask
        pos   == PositionIdsOf(mask1)
    IN  [input_ids |-> ids1,
         position_ids |-> IF past # None THEN SliceFrom(pos, -Width(ids1)) ELSE pos,
         attention_mask |-> mask1,
         time_series_values |-> ts]

\* ------------------------------------------------------ generation run
GenShapes ==
    {s \in (1 .. MaxBatch) \X (1 .. MaxSeqLen) : s[1] * s[2] <= MaxGenTokens}

GenInit ==
    /\ \E s \in GenShapes :
         input_ids \in [0 .. s[1] - 1 -> [0 .. s[2] - 1 -> TokenIds]]
    /\ attention_mask = MaskFor(input_ids, "tokenizer")
    /\ labels = None
    /\ time_series_values \in BOOLEAN
    /\ IF time_series_values
       THEN /\ num_time_series \in 0 .. MaxTimeSeries
            /\ num_time_series_patches \in 1 .. MaxPatches
       ELSE /\ num_time_series = 0
            /\ num_time_series_patches = 1
    /\ pad_embedding_zero \in BOOLEAN
    /\ lm_keys \in LMKinds
    /\ pc = "generate"
    /\ merged = NoCall
    /\ past_key_values = None
    /\ model_inputs = NoCall
    /\ fwd = NoCall
    /\ branches = <<>>
    /\ step = 0

\* The generation loop calls prepare_inputs_for_generation.
Prepare ==
    /\ pc = "generate"
    /\ model_inputs' = PrepareInputsForGeneration(
                           input_ids, past_key_values, attention_mask, time_series_values)
    /\ pc' = "prepared"
    /\ UNCHANGED <<input_ids, attention_mask, labels, num_time_series,
                   num_time_series_patches, pad_embedding_zero, merged,
                   time_series_values, lm_keys, past_key_values, fwd, branches, step>>

\* The generation loop calls forward on the prepared bundle and keeps the cache.
ForwardStep ==
    /\ pc = "prepared"
    /\ LET f == Forward(model_inputs, past_key_values, num_time_series,
                        num_time_series_patches, pad_embedding_zero, lm_keys)
       IN  /\ fwd' = [k \in DOMAIN f \ {"merged", "cache"} |-> f[k]]
           /\ merged' = f.merged
           /\ branches' = Append(branches, f.branch)
           /\ past_key_values' = f.cache
           /\ pc' = IF f.raised THEN "raised" ELSE "forwarded"
    /\ UNCHANGED <<input_ids, attention_mask, labels, num_time_series,
                   num_time_series_patches, pad_embedding_zero,
                   time_series_values, lm_keys, model_inputs, step>>

\* What the generation loop appends to every row: a sampled token with mask 1,
\* or, the batch finished, a pad token with mask 0; a finished batch stays finished.
NextColumns(ids) ==
    IF step > 0 /\ \A r \in RowsOf(ids) : ids[r][LastCol(ids)] = pad_token_id
    THEN {<<pad_token_id, 0>>}
    ELSE {<<text_token_id, 1>>, <<pad_token_id, 0>>}

\* The generation loop appends one column to input_ids and attention_mask.
GenerateUpdate ==
    /\ pc = "forwarded"
    /\ step < MaxSteps
    /\ \E col \in NextColumns(input_ids) :
         /\ input_ids' = Cat(input_ids, [r \in RowsOf(input_ids) |-> [c \in {0} |-> col[1]]])
         /\ attention_mask' =
                Cat(attention_mask, [r \in RowsOf(attention_mask) |-> [c \in {0} |-> col[2]]])
    /\ step' = step + 1
    /\ pc' = "generate"
    /\ UNCHANGED <<labels, num_time_series, num_time_series_patches,
                   pad_embedding_zero, merged, time_series_values, lm_keys,
                   past_key_values, model_inputs, fwd, branches>>

GenNext == Prepare \/ ForwardStep \/ GenerateUpdate

GenSpec == GenInit /\ [][GenNext]_vars

Next == Merge

Spec == Init /\ [][Next]_vars

\* ------------------------------------------------------------ claim helpers
\* The placeholder tokens of the batch.
Placeholders == {rc \in RowsOf(input_ids) \X ColsOf(input_ids) :
                    input_ids[rc[1]][rc[2]] = time_series_token_index}

\* k_r: the number of placeholder tokens of row r.
PlaceholdersInRow(r) == Cardinality({rc \in Placeholders : rc[1] = r})

\* The number of placeholders before (r, c) in row-major order.
RowMajorRank(r, c) ==
    Cardinality({rc \in Placeholders : rc[1] < r \/ (rc[1] = r /\ rc[2] < c)})

\* The natural fused length of row r.
NaturalLength(r) ==
    Width(input_ids) + PlaceholdersInRow(r) * (num_time_series_patches - 1)

\* max over rows of the natural fused length
ExpectedMaxFusedLength ==
    CHOOSE n \in {NaturalLength(r) : r \in RowsOf(input_ids)} :
        \A r \in RowsOf(input_ids) : NaturalLength(r) <= n

\* The slots that only align row r with the longest row, on the side the
\* batch is padded on.
AlignmentPadding(r) ==
    LET gap == ExpectedMaxFusedLength - NaturalLength(r)
    IN  IF merged.left_padding THEN 0 .. gap - 1
        ELSE ExpectedMaxFusedLength - gap .. ExpectedMaxFusedLength - 1

SomeRowEndsInPad ==
    \E r \in RowsOf(input_ids) : input_ids[r][LastCol(input_ids)] = pad_token_id

Called == pc \in {"merged", "raised"}

\* ------------------------------------------------------------------ C1
\* C1: the call raises ValueError exactly when the number of placeholder tokens
\* of the whole batch differs from the number N of time-series instances, and
\* when it does not raise, N * P fused positions are selected as time-series slots.
C1_RaisesIffCountMismatch ==
    Called =>
        /\ (pc = "raised") <=> (Cardinality(Placeholders) # num_time_series)
        /\ pc = "merged" =>
              Cardinality({ri \in RowsOf(merged.time_series_to_overwrite)
                                   \X ColsOf(merged.time_series_to_overwrite) :
                              merged.time_series_to_overwrite[ri[1]][ri[2]] = 1})
                  = num_time_series * num_time_series_patches

\* A right-padded batch whose rows hold different numbers of placeholders passes
\* the count check.
C1_Witness ==
    /\ pc = "merged"
    /\ ~merged.left_padding
    /\ num_time_series_patches > 1
    /\ \E r, q \in RowsOf(input_ids) :
           /\ PlaceholdersInRow(r) > PlaceholdersInRow(q)
           /\ PlaceholdersInRow(q) > 0

\* ------------------------------------------------------------------ C2
\* C2: after a call that passes the count check, the P patch vectors of instance j
\* lie, in patch order and attended, on the P fused positions that end at the
\* destination of the j-th placeholder (row-major), and the only unselected free
\* slots are the alignment padding, none of which is selected.
C2_FeaturesAtPlaceholders ==
    pc = "merged" =>
        /\ \A rc \in Placeholders :
              LET r == rc[1]
                  d == merged.new_token_positions[rc[1]][rc[2]]
                  j == RowMajorRank(rc[1], rc[2])
              IN  \A p \in 0 .. num_time_series_patches - 1 :
                      LET i == d - num_time_series_patches + 1 + p
                      IN  /\ merged.final_embedding[r][i] = <<"ts", j, p>>
                          /\ merged.final_attention_mask[r][i] = 1
        /\ \A r \in RowsOf(input_ids) : \A i \in AlignmentPadding(r) :
              merged.time_series_to_overwrite[r][i] = 0

\* ------------------------------------------------------------------ C3
\* C3 as stated: every token that is no placeholder (pad tokens included) has its
\* original embedding at its destination, and the destinations of one row are
\* distinct and within the fused length.
C3_RoundTripAllNonPlaceholders ==
    pc = "merged" =>
        \A r \in RowsOf(input_ids) : \A c \in ColsOf(input_ids) :
            LET d == merged.new_token_positions[r][c]
            IN  /\ d \in 0 .. merged.max_embed_dim - 1
                /\ \A x \in ColsOf(input_ids) :
                       x # c => merged.new_token_positions[r][x] # d
                /\ input_ids[r][c] # time_series_token_index =>
                       merged.final_embedding[r][d]
                           = InputsEmbeds(input_ids, pad_embedding_zero)[r][c]

\* C3 amended: every token that is neither a placeholder nor a pad token has its
\* original embedding at its destination, a pad token has the zero vector there,
\* and the destinations of one row are distinct and within the fused length.
C3_RoundTripTextZeroPad ==
    pc = "merged" =>
        \A r \in RowsOf(input_ids) : \A c \in ColsOf(input_ids) :
            LET d == merged.new_token_positions[r][c]
            IN  /\ d \in 0 .. merged.max_embed_dim - 1
                /\ \A x \in ColsOf(input_ids) :
                       x # c => merged.new_token_positions[r][x] # d
                /\ input_ids[r][c] \notin {time_series_token_index, pad_token_id} =>
                       merged.final_embedding[r][d] = <<"txt", r, c>>
                /\ input_ids[r][c] = pad_token_id =>
                       merged.final_embedding[r][d] = ZeroVec

\* A left-padded batch with text after a placeholder and a shifted shorter row.
C3_Witness ==
    /\ pc = "merged"
    /\ merged.left_padding
    /\ num_time_series_patches > 1
    /\ ~pad_embedding_zero
    /\ \E r \in RowsOf(input_ids) :
           /\ merged.nb_time_series_pad[r] > 0
           /\ input_ids[r][0] = pad_token_id
           /\ input_ids[r][LastCol(input_ids)] = text_token_id
    /\ \E r \in RowsOf(input_ids) :
           /\ input_ids[r][0] = time_series_token_index
           /\ input_ids[r][LastCol(input_ids)] = text_token_id

\* ------------------------------------------------------------------ C4
NoPlaceholderCall ==
    pc = "merged" /\ Placeholders = {} /\ num_time_series = 0

\* C4 as stated: without placeholders and instances the fused embeddings, mask
\* and labels equal the original ones at every (row, column).
C4_NoOpEverywhere ==
    NoPlaceholderCall =>
        /\ merged.final_embedding = InputsEmbeds(input_ids, pad_embedding_zero)
        /\ merged.final_attention_mask = attention_mask
        /\ merged.final_labels = labels

\* C4 amended: without placeholders and instances the fused mask and labels equal
\* the original ones, the fused embedding equals the original one at every token
\* that is no pad token, and is the zero vector at every pad token.
C4_NoOpExceptPadEmbedding ==
    NoPlaceholderCall =>
        /\ merged.final_attention_mask = attention_mask
        /\ merged.final_labels = labels
        /\ RowsOf(merged.final_embedding) = RowsOf(input_ids)
        /\ \A r \in RowsOf(input_ids) :
              /\ DOMAIN merged.final_embedding[r] = ColsOf(input_ids)
              /\ \A c \in ColsOf(input_ids) :
                    merged.final_embedding[r][c] =
                        IF input_ids[r][c] = pad_token_id THEN ZeroVec
                        ELSE <<"txt", r, c>>

\* A call without placeholders on rows that hold pad tokens, labels given.
C4_Witness ==
    /\ NoPlaceholderCall
    /\ labels # None
    /\ \E r \in RowsOf(input_ids) : \E c, x \in ColsOf(input_ids) :
           input_ids[r][c] = pad_token_id /\ input_ids[r][x] = text_token_id
    /\ \E rc \in RowsOf(input_ids) \X ColsOf(input_ids) :
           attention_mask[rc[1]][rc[2]] = 0

\* ------------------------------------------------------------------ C5
\* C5: the fused embeddings, attention mask, labels (when given) and position ids
\* of one call all have max over rows of (k_r * (P - 1) + L) columns; for a
\* single row with k placeholders that is L + k * (P - 1).
C5_FusedLength ==
    pc = "merged" =>
        /\ \A r \in RowsOf(input_ids) :
              /\ DOMAIN merged.final_embedding[r] = 0 .. ExpectedMaxFusedLength - 1
              /\ DOMAIN merged.final_attention_mask[r] = 0 .. ExpectedMaxFusedLength - 1
              /\ DOMAIN merged.position_ids[r] = 0 .. ExpectedMaxFusedLength - 1
              /\ labels # None =>
                    DOMAIN merged.final_labels[r] = 0 .. ExpectedMaxFusedLength - 1
        /\ Height(input_ids) = 1 =>
              Width(merged.final_embedding)
                  = Width(input_ids)
                      + Cardinality(Placeholders) * (num_time_series_patches - 1)

\* Two rows with different numbers of placeholders, several patches, labels given.
C5_Witness ==
    /\ pc = "merged"
    /\ labels # None
    /\ num_time_series_patches > 1
    /\ \E r, q \in RowsOf(input_ids) : NaturalLength(r) > NaturalLength(q)
    /\ Width(merged.final_embedding) > Width(input_ids)

\* ------------------------------------------------------------------ C6
\* C6: every fused row has as many ones in its attention mask as the row has
\* attended non-placeholder tokens plus k_r * P, and every alignment-padding slot
\* has mask 0.
C6_MaskOnes ==
    pc = "merged" =>
        \A r \in RowsOf(input_ids) :
            /\ CountOnes(merged.final_attention_mask[r])
                   = Cardinality({c \in ColsOf(input_ids) :
                                     /\ input_ids[r][c] # time_series_token_index
                                     /\ attention_mask[r][c] = 1})
                     + PlaceholdersInRow(r) * num_time_series_patches
            /\ \A i \in AlignmentPadding(r) : merged.final_attention_mask[r][i] = 0

\* ------------------------------------------------------------------ C9
\* The destination of column c of row r before any shift.
UnshiftedPosition(r, c) ==
    c + (num_time_series_patches - 1)
          * Cardinality({rc \in Placeholders : rc[1] = r /\ rc[2] <= c})

ShiftedExactlyWhen(left) ==
    \A r \in RowsOf(input_ids) : \A c \in ColsOf(input_ids) :
        merged.new_token_positions[r][c] =
            UnshiftedPosition(r, c)
              + (IF left THEN ExpectedMaxFusedLength - NaturalLength(r) ELSE 0)

\* C9 as stated: the batch is treated as left-padded iff at least one row's last
\* token is the pad token, and exactly then every row's destinations are shifted
\* right by max_fused_length minus the row's natural length.
C9_LeftPaddingIffSomeRowEndsInPad ==
    Called =>
        /\ merged.left_padding <=> SomeRowEndsInPad
        /\ ShiftedExactlyWhen(SomeRowEndsInPad)

\* C9 amended: the batch is treated as left-padded iff no row's last token is the
\* pad token, and exactly then every row's destinations are shifted right by
\* max_fused_length minus the row's natural length.
C9_LeftPaddingIffNoRowEndsInPad ==
    Called =>
        /\ merged.left_padding <=> ~SomeRowEndsInPad
        /\ ShiftedExactlyWhen(~SomeRowEndsInPad)

\* A left-padded batch with a shifted row, and the detection at work on it.
C9_Witness ==
    /\ pc = "merged"
    /\ merged.left_padding
    /\ \E r \in RowsOf(input_ids) :
           /\ input_ids[r][0] = pad_token_id
           /\ merged.new_token_positions[r][0] > 0

\* ------------------------------------------------------------------ C7
\* A forward of the run has just taken the decode branch (cache present, one
\* token per row, time-series values given).
DecodeStepDone == pc = "forwarded" /\ fwd.branch = "adjust"

\* The positions of the cache the decode step was given: all but the one the
\* step has appended.
GivenCachePositions == 0 .. Width(past_key_values) - 2

\* The cached positions of row r whose first-layer keys do not sum to zero, in
\* the cache the decode step was given.
AttendedCachePositions(r) ==
    {j \in GivenCachePositions : SumTo(past_key_values[r][j], NumKeyHeads - 1) # 0}

\* C7 as stated: the decode step's position id of every row is the number of
\* nonzero entries of the cache-length extended attention mask minus one.
C7_PositionIsCacheCountMinusOne ==
    DecodeStepDone =>
        \A r \in RowsOf(fwd.position_ids) :
            fwd.position_ids[r][0] = CountOnes(fwd.extended_attention_mask[r]) - 1

\* C7 amended: the decode step's position id of every row is the number of
\* attended cache positions plus the last bit of the incoming attention mask,
\* minus one: the number of nonzero entries of the mask handed to the language
\* model, minus one.
C7_PositionIsMaskCountMinusOne ==
    DecodeStepDone =>
        \A r \in RowsOf(fwd.position_ids) :
            /\ DOMAIN fwd.position_ids[r] = {0}
            /\ fwd.position_ids[r][0] =
                   Cardinality(AttendedCachePositions(r))
                     + model_inputs.attention_mask[r][LastCol(model_inputs.attention_mask)]
                     - 1
            /\ fwd.position_ids[r][0] =
                   Cardinality({j \in DOMAIN fwd.attention_mask[r] :
                                   fwd.attention_mask[r][j] # 0}) - 1

\* A decode step after a fused prefill, on a cache that holds attended and
\* non-attended positions, for a new token whose mask bit is 1.
C7_Witness ==
    /\ DecodeStepDone
    /\ branches[1] = "merge"
    /\ \E r \in RowsOf(fwd.position_ids) :
           /\ AttendedCachePositions(r) # {}
           /\ AttendedCachePositions(r) # GivenCachePositions
           /\ model_inputs.attention_mask[r][LastCol(model_inputs.attention_mask)] = 1

\* ------------------------------------------------------------------ C8
\* The run began with a fused prefill of a batch that holds a placeholder.
FusedPrefill ==
    Len(branches) >= 1 /\ branches[1] = "merge" /\ HoldsPlaceholder(input_ids)

\* C8: after a fused prefill, every later step of the run forwards exactly one
\* token id per row, the newest one, takes the cache-mask-adjuster branch and
\* never runs the fusion again.
C8_DecodeStepsForwardOneToken ==
    FusedPrefill =>
        /\ \A i \in 2 .. Len(branches) : branches[i] = "adjust"
        /\ (step >= 1 /\ pc \in {"prepared", "forwarded", "raised"}) =>
              /\ Width(model_inputs.input_ids) = 1
              /\ \A r \in RowsOf(input_ids) :
                    model_inputs.input_ids[r][0] = input_ids[r][LastCol(input_ids)]

\* The second decode step after a fused prefill of two rows with several patches.
C8_Witness ==
    /\ FusedPrefill
    /\ pc = "forwarded"
    /\ step >= 2
    /\ Len(branches) = step + 1
    /\ num_time_series_patches > 1
    /\ Height(input_ids) > 1

\* ------------------------------------------------------------------ C10
\* Row `pos` carries, at its column x, the position id of mask column x + offset:
\* the count of ones up to that column minus one where the mask is 1, else 1.
FollowsMaskRule(pos, mask, offset) ==
    \A x \in DOMAIN pos :
        LET j == x + offset
        IN  pos[x] = IF mask[j] = 1
                     THEN Cardinality({y \in DOMAIN mask : y <= j /\ mask[y] = 1}) - 1
                     ELSE 1

\* C10: the fused position ids are, at every attended position, the number of
\* attended positions up to it minus one, and 1 at every other position;
\* prepare_inputs_for_generation computes the position ids it returns from the
\* attention mask by the same rule.
C10_PositionIds ==
    /\ (merged # NoCall /\ ~merged.raised) =>
          \A r \in RowsOf(merged.position_ids) :
              /\ DOMAIN merged.position_ids[r] = DOMAIN merged.final_attention_mask[r]
              /\ FollowsMaskRule(merged.position_ids[r], merged.final_attention_mask[r], 0)
    /\ pc = "prepared" =>
          \A r \in RowsOf(model_inputs.position_ids) :
              /\ Width(model_inputs.position_ids)
                     = IF past_key_values = None
                       THEN Width(model_inputs.attention_mask)
                       ELSE Width(model_inputs.input_ids)
              /\ FollowsMaskRule(model_inputs.position_ids[r],
                                 model_inputs.attention_mask[r],
                                 Width(model_inputs.attention_mask)
                                     - Width(model_inputs.position_ids))

\* A decode step is prepared after a fused prefill whose mask has attended and
\* non-attended positions, the attended ones not all in front.
C10_Witness ==
    /\ pc = "prepared"
    /\ step >= 1
    /\ merged # NoCall
    /\ ~merged.raised
    /\ \E r \in RowsOf(merged.final_attention_mask) :
           \E i, j \in DOMAIN merged.final_attention_mask[r] :
               /\ i < j
               /\ merged.final_attention_mask[r][i] = 0
               /\ merged.final_attention_mask[r][j] = 1
               /\ merged.position_ids[r][j] > 0
    /\ \E r \in RowsOf(attention_mask) : \E c \in ColsOf(attention_mask) :
           attention_mask[r][c] = 0

\* ------------------------------------------------------------------ C11
\* C11: in a decode step the attention mask handed to the language model has
\* cache_length + 1 columns; at every cached position j its bit is 0 exactly when
\* the first-layer key values read from the cache at j (past_key_values[0][0][r, :, j, 0],
\* one per head) sum to zero, and 1 otherwise, whatever the incoming attention
\* mask's length and earlier bits are; its last bit is the last bit of the
\* incoming attention mask.
C11_DecodeMaskFromCache ==
    DecodeStepDone =>
        /\ RowsOf(fwd.attention_mask) = RowsOf(model_inputs.attention_mask)
        /\ \A r \in RowsOf(fwd.attention_mask) :
              /\ DOMAIN fwd.attention_mask[r] = 0 .. Cardinality(GivenCachePositions)
              /\ \A j \in GivenCachePositions :
                    fwd.attention_mask[r][j] =
                        IF SumTo(past_key_values[r][j], NumKeyHeads - 1) = 0 THEN 0 ELSE 1
              /\ fwd.attention_mask[r][Cardinality(GivenCachePositions)] =
                     model_inputs.attention_mask[r][LastCol(model_inputs.attention_mask)]

\* A decode step whose incoming mask is shorter than the cache and disagrees, at
\* an earlier position, with the bit derived from the cache, which holds both
\* positions whose keys sum to zero and positions whose keys do not.
C11_Witness ==
    /\ DecodeStepDone
    /\ Width(model_inputs.attention_mask) < Cardinality(GivenCachePositions) + 1
    /\ \E r \in RowsOf(fwd.attention_mask) :
           /\ \E j \in GivenCachePositions : fwd.attention_mask[r][j] = 0
           /\ \E j \in GivenCachePositions : fwd.attention_mask[r][j] = 1
           /\ \E j \in 0 .. Width(model_inputs.attention_mask) - 2 :
                  model_inputs.attention_mask[r][j] # fwd.attention_mask[r][j]

====
